---- MODULE Spec2Model ----
(***************************************************************************)
(* Zenith-Flow: the payment submission flow of PaymentForm.tsx.            *)
(*                                                                         *)
(* State: the seven useState cells of the component, the wallet's          *)
(* publicKey, the pending invocations of handleSubmit (each suspended at   *)
(* one of its two awaits), the pending setTimeout callbacks, and the log   *)
(* of calls made to the wallet (sendTransaction) and to the connection     *)
(* (confirmTransaction).                                                   *)
(*                                                                         *)
(* Text is a sequence of one-character strings where the code parses it    *)
(* (recipient, amount) and a sequence of words where the code searches it  *)
(* (error messages, String.prototype.includes).  A nullable value is <<>>  *)
(* (null) or <<v>>.                                                        *)
(*                                                                         *)
(* A number read by parseFloat is kept as an exact decimal m / 10^scale;   *)
(* the amounts typed here have no exponent and at most four fraction       *)
(* digits (one has ten, a tenth of a lamport), for which the double        *)
(* comparisons of lines 49-52 agree with the decimal ones.  The double     *)
(* product of line 56 does not always agree with the decimal one: see      *)
(* Lamports.                                                               *)
(*                                                                         *)
(* Spec is the component as mounted in the page: handleSubmit runs when    *)
(* the submit button is pressed, and the button can be pressed only while  *)
(* it is not disabled.  The browser's min/max/step/required checks on the  *)
(* fields are left out, so that handleSubmit's own validation is reached   *)
(* with every value the fields can hold.  SpecLive adds the fairness of    *)
(* the timers, SpecHarness is the component on its own, SpecPage the page  *)
(* with its wallet, SpecCard the wallet card of the dashboard.             *)
(***************************************************************************)
EXTENDS Integers, Sequences, FiniteSets, TLC

VARIABLES recipient, amount, memo, isProcessing, success, error, txSignature,
          publicKey, flows, timers, sendCalls, confirmCalls,
          walletCard, fetches

vars == <<recipient, amount, memo, isProcessing, success, error, txSignature,
          publicKey, flows, timers, sendCalls, confirmCalls,
          walletCard, fetches>>

\* the payment form and its calls / the wallet card and its balance requests
paymentVars == <<recipient, amount, memo, isProcessing, success, error,
                 txSignature, flows, timers, sendCalls, confirmCalls>>
cardVars == <<walletCard, fetches>>

formState == <<recipient, amount, memo, isProcessing, success, error, txSignature>>

(***************************************************************************)
(* Bounds of the model.                                                    *)
(***************************************************************************)
\* number of balance requests started in one behaviour
MaxFetches == 3
\* number of times the submit button is pressed in one behaviour
MaxSubmits == 2
\* granularity of the clock, in milliseconds
TickMs == 4000

(***************************************************************************)
(* Program constants.                                                      *)
(***************************************************************************)
LAMPORTS_PER_SOL == 1000000000
ConfirmTimeoutMs == 30000
BannerMs == 8000
PUBLIC_KEY_LENGTH == 32

Null == <<>>
Some(v) == <<v>>

(***************************************************************************)
(* Text helpers.                                                           *)
(***************************************************************************)
Digits == <<"0", "1", "2", "3", "4", "5", "6", "7", "8", "9">>

IsDigit(c) == \E d \in 1..10 : Digits[d] = c

DigitVal(c) == (CHOOSE d \in 1..10 : Digits[d] = c) - 1

Ones(n) == [i \in 1..n |-> "1"]

RECURSIVE Pow10(_)
Pow10(n) == IF n = 0 THEN 1 ELSE 10 * Pow10(n - 1)

\* length of the longest prefix of s made of decimal digits
RECURSIVE DigitPrefixLen(_)
DigitPrefixLen(s) ==
  IF s = <<>> \/ ~IsDigit(Head(s)) THEN 0 ELSE 1 + DigitPrefixLen(Tail(s))

\* value of a sequence of decimal digits
RECURSIVE DigitsValue(_)
DigitsValue(s) ==
  IF s = <<>> THEN 0
  ELSE 10 * DigitsValue(SubSeq(s, 1, Len(s) - 1)) + DigitVal(s[Len(s)])

\* String.prototype.includes on word sequences: pat occurs contiguously in msg
Includes(msg, pat) ==
  \E k \in 0..(Len(msg) - Len(pat)) : SubSeq(msg, k + 1, k + Len(pat)) = pat

(***************************************************************************)
(* new PublicKey(recipient): base58-decode the text and require 32 bytes.  *)
(***************************************************************************)
Base58Alphabet ==
  <<"1", "2", "3", "4", "5", "6", "7", "8", "9",
    "A", "B", "C", "D", "E", "F", "G", "H", "J", "K", "L", "M", "N", "P",
    "Q", "R", "S", "T", "U", "V", "W", "X", "Y", "Z",
    "a", "b", "c", "d", "e", "f", "g", "h", "i", "j", "k", "m", "n", "o",
    "p", "q", "r", "s", "t", "u", "v", "w", "x", "y", "z">>

IsBase58(c) == \E k \in 1..58 : Base58Alphabet[k] = c

Base58Digit(c) == (CHOOSE k \in 1..58 : Base58Alphabet[k] = c) - 1

\* each leading "1" decodes to one zero byte
RECURSIVE LeadingOnes(_)
LeadingOnes(s) ==
  IF s = <<>> \/ Head(s) # "1" THEN 0 ELSE 1 + LeadingOnes(Tail(s))

\* the number written by the base58 digits of s (s short enough for the integers)
RECURSIVE Base58Value(_)
Base58Value(s) ==
  IF s = <<>> THEN 0
  ELSE 58 * Base58Value(SubSeq(s, 1, Len(s) - 1)) + Base58Digit(s[Len(s)])

\* number of bytes of the big-endian representation of n without leading zeros
RECURSIVE ByteLen(_)
ByteLen(n) == IF n = 0 THEN 0 ELSE 1 + ByteLen(n \div 256)

DecodedLength(s) ==
  LET z == LeadingOnes(s)
  IN  z + ByteLen(Base58Value(SubSeq(s, z + 1, Len(s))))

\* TRUE iff new PublicKey(s) does not throw
PublicKeyParses(s) ==
  /\ \A k \in 1..Len(s) : IsBase58(s[k])
  /\ DecodedLength(s) = PUBLIC_KEY_LENGTH

(***************************************************************************)
(* The amount field: <input type="number"> hands onChange the sanitized    *)
(* value (the text if it is a valid floating-point number, else ""), and   *)
(* handleSubmit reads it with parseFloat.  A number is m / 10^scale.       *)
(***************************************************************************)
NaN == [nan |-> TRUE, m |-> 0, scale |-> 0]

SanitizeNumber(s) ==
  LET body == IF s # <<>> /\ Head(s) = "-" THEN Tail(s) ELSE s
      k1   == DigitPrefixLen(body)
      rest == SubSeq(body, k1 + 1, Len(body))
      ok   == \/ k1 > 0 /\ rest = <<>>
              \/ /\ rest # <<>>
                 /\ Head(rest) = "."
                 /\ Len(rest) > 1
                 /\ DigitPrefixLen(Tail(rest)) = Len(rest) - 1
  IN  IF ok THEN s ELSE <<>>

\* parseFloat: optional sign, digits, optional fraction; the longest such
\* prefix is the number and whatever follows it is ignored
parseFloat(s) ==
  LET signed == s # <<>> /\ Head(s) \in {"-", "+"}
      body   == IF signed THEN Tail(s) ELSE s
      k1     == DigitPrefixLen(body)
      rest   == SubSeq(body, k1 + 1, Len(body))
      k2     == IF rest # <<>> /\ Head(rest) = "."
                THEN DigitPrefixLen(Tail(rest)) ELSE 0
      digs   == SubSeq(body, 1, k1) \o SubSeq(rest, 2, k2 + 1)
      sgn    == IF signed /\ Head(s) = "-" THEN -1 ELSE 1
  IN  IF k1 + k2 = 0 THEN NaN
      ELSE [nan |-> FALSE, m |-> sgn * DigitsValue(digs), scale |-> k2]

\* variant: zero passes the positivity test
NotPositive_ZeroAllowed(a) == a.m < 0

\* amountNum <= 0
NotPositive(a) == a.m <= 0

\* variant: the ceiling itself is refused
AboveCeiling_Exclusive(a) == a.scale <= 9 /\ 2 * a.m >= Pow10(a.scale)

\* amountNum > 0.5 (the amounts drawn have a mantissa below 10^9, so one with
\* more than nine fraction digits is below 0.5)
AboveCeiling(a) == a.scale <= 9 /\ 2 * a.m > Pow10(a.scale)

\* amountNum * LAMPORTS_PER_SOL is a product of doubles.  For 0 < amountNum
\* <= 0.5 written with at most four fraction digits the product is the exact
\* integer, except for the four-digit decimals m / 10^4 with m below: there
\* the double nearest to the decimal, times 1e9, rounds to the double just
\* under the integer.
ShortProducts ==
  { 157, 163, 314, 319, 321, 326, 331, 628, 633, 638, 642, 643, 647,
    652, 657, 662, 667, 1251, 1256, 1261, 1266, 1271, 1276, 1281,
    1284, 1286, 1289, 1291, 1294, 1299, 1304, 1309, 1314, 1319, 1324,
    1329, 1334, 1339, 2502, 2507, 2512, 2517, 2522, 2527, 2532, 2537,
    2542, 2547, 2552, 2557, 2562, 2563, 2567, 2568, 2572, 2573, 2577,
    2578, 2582, 2583, 2588, 2593, 2598, 2603, 2608, 2613, 2618, 2623,
    2628, 2633, 2638, 2643, 2648, 2653, 2658, 2663, 2668, 2673, 2678,
    2683 }

\* Math.floor(amountNum * LAMPORTS_PER_SOL), for 0 < amountNum <= 0.5 with at
\* most four fraction digits, or with more than nine and a value under one
\* lamport (the product is then a double below 1)
Lamports(a) ==
  LET exact == IF a.scale <= 9
               THEN a.m * (LAMPORTS_PER_SOL \div Pow10(a.scale))
               ELSE a.m \div Pow10(a.scale - 9)
  IN  IF a.scale = 4 /\ a.m \in ShortProducts THEN exact - 1 ELSE exact

(***************************************************************************)
(* Messages.                                                               *)
(***************************************************************************)
MsgWalletNotConnected == <<"Wallet", "not", "connected">>
MsgInvalidRecipient   == <<"Invalid", "recipient", "address", "format">>
MsgInvalidAmount      == <<"Invalid", "amount">>
MsgAmountTooLarge     == <<"Maximum", "0.5", "SOL", "for", "demo", "purposes">>
MsgConfirmTimeout     == <<"Confirmation", "timeout">>
MsgCancelled          == <<"You", "cancelled", "the", "transaction">>
MsgPasskeyFailed      == <<"Passkey", "authentication", "failed.", "Please", "try", "again.">>
MsgInsufficient       == <<"Insufficient", "SOL", "balance">>
MsgExpired            == <<"Transaction", "expired.", "Please", "try", "again.">>
MsgTransactionFailed  == <<"Transaction", "failed">>

\* a thrown value: an Error carrying a message, or something that is not an Error
ErrorOf(msg) == [isError |-> TRUE, message |-> Some(msg)]
NonError     == [isError |-> FALSE, message |-> Null]

(***************************************************************************)
(* Inputs.                                                                 *)
(***************************************************************************)
WalletAddress == Ones(31) \o <<"3">>

ValidRecipientA == Ones(32)
ValidRecipientB == Ones(31) \o <<"2">>
ShortRecipient  == Ones(31)
BadCharRecipient == Ones(31) \o <<"0">>

RecipientTexts ==
  {ValidRecipientA, ShortRecipient, BadCharRecipient}

\* what the user types into the amount field
AmountTexts ==
  { <<"0", ".", "5">>, <<"0", ".", "5", "1">>,
    <<"0">>, <<"-", "1">>, <<"0", ".", "3", "x">> }

MemoTexts == {<<>>, <<"Testing">>}

Signatures == {"SIG123", "SIG456"}

\* rejections of wallet.sendTransaction
SendErrors ==
  { ErrorOf(<<"User", "rejected", "the", "request">>),
    ErrorOf(<<"Signing", "failed">>),
    ErrorOf(<<"insufficient", "lamports">>),
    ErrorOf(<<"blockhash", "not", "found">>),
    ErrorOf(<<"Transaction", "too", "large", ":", "1644", ">", "1232">>),
    ErrorOf(<<"Network", "request", "failed">>),
    NonError }

\* results of connection.confirmTransaction: value.err is null or an error
ConfirmResults == {[err |-> Null], [err |-> Some("InstructionError")]}

\* rejections of connection.confirmTransaction
ConfirmErrors == {ErrorOf(<<"failed", "to", "fetch">>)}

(***************************************************************************)
(* handleSubmit, lines 38-54: validation.  Null, or the message thrown.    *)
(***************************************************************************)
\* variant: the PublicKey parse error is swallowed
ValidationError_RecipientUnchecked(r, a) ==
  LET amountNum == parseFloat(a)
  IN  IF amountNum.nan \/ NotPositive(amountNum) THEN Some(MsgInvalidAmount)
      ELSE IF AboveCeiling(amountNum) THEN Some(MsgAmountTooLarge)
      ELSE Null

\* variant: the amount is validated before the recipient
ValidationError_AmountFirst(r, a) ==
  LET amountNum == parseFloat(a)
  IN  IF amountNum.nan \/ NotPositive(amountNum) THEN Some(MsgInvalidAmount)
      ELSE IF AboveCeiling(amountNum) THEN Some(MsgAmountTooLarge)
      ELSE IF ~PublicKeyParses(r) THEN Some(MsgInvalidRecipient)
      ELSE Null

ValidationError(r, a) ==
  IF ~PublicKeyParses(r) THEN Some(MsgInvalidRecipient)
  ELSE LET amountNum == parseFloat(a)
       IN  IF amountNum.nan \/ NotPositive(amountNum) THEN Some(MsgInvalidAmount)
           ELSE IF AboveCeiling(amountNum) THEN Some(MsgAmountTooLarge)
           ELSE Null

\* variant: a memo instruction is added when the memo field is filled
BuildTransaction_WithMemo(from, r, a) ==
  [instructions |->
     << [program    |-> "SystemProgram.transfer",
         fromPubkey |-> from,
         toPubkey   |-> r,
         lamports   |-> Lamports(parseFloat(a))] >>
     \o (IF memo = <<>> THEN <<>>
         ELSE << [program |-> "Memo", fromPubkey |-> from, toPubkey |-> r,
                  lamports |-> 0] >>),
   recentBlockhash |-> Null,
   feePayer |-> Null]

\* variant: blockhash and fee payer are assigned before the wallet is called
BuildTransaction_WithBlockhash(from, r, a) ==
  [instructions |->
     << [program    |-> "SystemProgram.transfer",
         fromPubkey |-> from,
         toPubkey   |-> r,
         lamports   |-> Lamports(parseFloat(a))] >>,
   recentBlockhash |-> Some("blockhash"),
   feePayer |-> Some(from)]

\* lines 56-75: the transaction handed to sendTransaction
BuildTransaction(from, r, a) ==
  [instructions |->
     << [program    |-> "SystemProgram.transfer",
         fromPubkey |-> from,
         toPubkey   |-> r,
         lamports   |-> Lamports(parseFloat(a))] >>,
   recentBlockhash |-> Null,
   feePayer |-> Null]

\* variant: no branch for a rejected signing prompt
ClassifyTxError_NoUserRejected(txError) ==
  LET has(pat) == txError.message # Null /\ Includes(txError.message[1], pat)
  IN  IF has(<<"Signing", "failed">>) THEN ErrorOf(MsgPasskeyFailed)
      ELSE IF has(<<"insufficient">>) THEN ErrorOf(MsgInsufficient)
      ELSE IF has(<<"blockhash">>) THEN ErrorOf(MsgExpired)
      ELSE txError

\* lines 112-127: the inner catch maps the thrown value to the one rethrown
ClassifyTxError(txError) ==
  LET has(pat) == txError.message # Null /\ Includes(txError.message[1], pat)
  IN  IF has(<<"User", "rejected">>) THEN ErrorOf(MsgCancelled)
      ELSE IF has(<<"Signing", "failed">>) THEN ErrorOf(MsgPasskeyFailed)
      ELSE IF has(<<"insufficient">>) THEN ErrorOf(MsgInsufficient)
      ELSE IF has(<<"blockhash">>) THEN ErrorOf(MsgExpired)
      ELSE txError

\* variant: the outer catch always shows the generic text
ErrorMessage_Generic(err) == MsgTransactionFailed

\* lines 132-135: the message the outer catch displays
ErrorMessage(err) == IF err.isError THEN err.message[1] ELSE MsgTransactionFailed

(***************************************************************************)
(* Rendering, lines 164-206 and 265-270.                                   *)
(***************************************************************************)
Truthy(opt) == opt # Null /\ opt[1] # <<>>

SuccessBannerShown == success
ErrorBannerShown   == Truthy(error)
ErrorBannerTitle   == <<"Transaction", "Failed">>

\* variant: the button stays enabled while a submission is pending
SubmitDisabled_IgnoresProcessing == publicKey = Null

SubmitDisabled == isProcessing \/ publicKey = Null

(***************************************************************************)
(* State.                                                                  *)
(***************************************************************************)
\* WalletCard.tsx lines 10-14: the card as mounted; deps is what the effect of
\* lines 45-49 last ran with (null: it has not run yet)
CardInit ==
  [balance |-> 0, isRefreshing |-> FALSE, error |-> Null, deps |-> Null]

Init ==
  /\ recipient = <<>>
  /\ amount = <<>>
  /\ memo = <<>>
  /\ isProcessing = FALSE
  /\ success = FALSE
  /\ error = Null
  /\ txSignature = Null
  /\ publicKey = Some(WalletAddress)
  /\ flows = <<>>
  /\ timers = {}
  /\ sendCalls = <<>>
  /\ confirmCalls = <<>>
  /\ walletCard = CardInit
  /\ fetches = <<>>

\* one invocation of handleSubmit: where it is suspended, how it ended, the
\* signature it got, and whether its confirmTransaction call is outstanding
Flow(pc, outcome, sig, conf) ==
  [pc |-> pc, outcome |-> outcome, signature |-> sig, confirmation |-> conf]

Timer(kind, id, ms) == [kind |-> kind, flow |-> id, left |-> ms]

Pending(i) == flows[i].pc # "done"

(***************************************************************************)
(* The input fields, lines 213-263.                                        *)
(***************************************************************************)
ChangeRecipient(text) ==
  /\ recipient' = text
  /\ recipient' # recipient
  /\ Len(flows) < MaxSubmits
  /\ UNCHANGED <<amount, memo, isProcessing, success, error, txSignature,
                 publicKey, flows, timers, sendCalls, confirmCalls>>

ChangeAmount(text) ==
  /\ amount' = SanitizeNumber(text)
  /\ amount' # amount
  /\ Len(flows) < MaxSubmits
  /\ UNCHANGED <<recipient, memo, isProcessing, success, error, txSignature,
                 publicKey, flows, timers, sendCalls, confirmCalls>>

ChangeMemo(text) ==
  /\ memo' = text
  /\ memo' # memo
  /\ Len(flows) < MaxSubmits
  /\ UNCHANGED <<recipient, amount, isProcessing, success, error, txSignature,
                 publicKey, flows, timers, sendCalls, confirmCalls>>

(***************************************************************************)
(* handleSubmit, lines 25-84: everything up to the first await runs in one *)
(* event, and React renders the state the event leaves behind.             *)
(***************************************************************************)
\* variant: the wallet is not checked, a missing key is passed on as it is
handleSubmit_NoWalletCheck ==
  LET id == Len(flows) + 1
      v  == ValidationError(recipient, amount)
  IN  IF v # Null
      THEN /\ error' = v
           /\ success' = FALSE
           /\ isProcessing' = FALSE
           /\ txSignature' = Null
           /\ timers' = timers \cup {Timer("clearError", id, BannerMs)}
           /\ flows' = Append(flows, Flow("done", "invalid", Null, "none"))
           /\ UNCHANGED <<recipient, amount, memo, publicKey, sendCalls, confirmCalls>>
      ELSE /\ error' = Null
           /\ success' = FALSE
           /\ isProcessing' = TRUE
           /\ txSignature' = Null
           /\ sendCalls' = Append(sendCalls,
                [flow |-> id,
                 transaction |-> BuildTransaction(publicKey, recipient, amount)])
           /\ flows' = Append(flows, Flow("send", "pending", Null, "none"))
           /\ UNCHANGED <<recipient, amount, memo, publicKey, timers, confirmCalls>>

\* variant: the banners of the previous submission are not reset at the start
handleSubmit_KeepsBanners ==
  LET id == Len(flows) + 1
      v  == ValidationError(recipient, amount)
  IN  IF publicKey = Null
      THEN /\ error' = Some(MsgWalletNotConnected)
           /\ flows' = Append(flows, Flow("done", "notConnected", Null, "none"))
           /\ UNCHANGED <<recipient, amount, memo, isProcessing, success,
                          txSignature, publicKey, timers, sendCalls, confirmCalls>>
      ELSE IF v # Null
      THEN /\ error' = v
           /\ isProcessing' = FALSE
           /\ timers' = timers \cup {Timer("clearError", id, BannerMs)}
           /\ flows' = Append(flows, Flow("done", "invalid", Null, "none"))
           /\ UNCHANGED <<recipient, amount, memo, success, txSignature,
                          publicKey, sendCalls, confirmCalls>>
      ELSE /\ isProcessing' = TRUE
           /\ sendCalls' = Append(sendCalls,
                [flow |-> id,
                 transaction |-> BuildTransaction(publicKey[1], recipient, amount)])
           /\ flows' = Append(flows, Flow("send", "pending", Null, "none"))
           /\ UNCHANGED <<recipient, amount, memo, success, error, txSignature,
                          publicKey, timers, confirmCalls>>

handleSubmit ==
  LET id == Len(flows) + 1
      v  == ValidationError(recipient, amount)
  IN  IF publicKey = Null
      THEN /\ error' = Some(MsgWalletNotConnected)
           /\ flows' = Append(flows, Flow("done", "notConnected", Null, "none"))
           /\ UNCHANGED <<recipient, amount, memo, isProcessing, success,
                          txSignature, publicKey, timers, sendCalls, confirmCalls>>
      ELSE IF v # Null
      THEN /\ error' = v
           /\ success' = FALSE
           /\ isProcessing' = FALSE
           /\ txSignature' = Null
           /\ timers' = timers \cup {Timer("clearError", id, BannerMs)}
           /\ flows' = Append(flows, Flow("done", "invalid", Null, "none"))
           /\ UNCHANGED <<recipient, amount, memo, publicKey, sendCalls, confirmCalls>>
      ELSE /\ error' = Null
           /\ success' = FALSE
           /\ isProcessing' = TRUE
           /\ txSignature' = Null
           /\ sendCalls' = Append(sendCalls,
                [flow |-> id,
                 transaction |-> BuildTransaction(publicKey[1], recipient, amount)])
           /\ flows' = Append(flows, Flow("send", "pending", Null, "none"))
           /\ UNCHANGED <<recipient, amount, memo, publicKey, timers, confirmCalls>>

\* the user presses the submit button, which is there to press when enabled
SubmitClick ==
  /\ ~SubmitDisabled
  /\ Len(flows) < MaxSubmits
  /\ handleSubmit

(***************************************************************************)
(* Lines 129-141: outer catch and finally, for flow i failing with err.    *)
(***************************************************************************)
\* variant: no finally block, isProcessing is left set
Fail_NoFinally(i, err, outcome, keptTimers) ==
  /\ error' = Some(ErrorMessage(err))
  /\ timers' = keptTimers \cup {Timer("clearError", i, BannerMs)}
  /\ flows' = [flows EXCEPT ![i].pc = "done", ![i].outcome = outcome]
  /\ UNCHANGED <<recipient, amount, memo, isProcessing, success, txSignature,
                 publicKey, sendCalls, confirmCalls>>

\* variant: the form is reset on failure as it is on success
Fail_ClearsForm(i, err, outcome, keptTimers) ==
  /\ error' = Some(ErrorMessage(err))
  /\ timers' = keptTimers \cup {Timer("clearError", i, BannerMs)}
  /\ isProcessing' = FALSE
  /\ flows' = [flows EXCEPT ![i].pc = "done", ![i].outcome = outcome]
  /\ recipient' = <<>>
  /\ amount' = <<>>
  /\ memo' = <<>>
  /\ UNCHANGED <<success, txSignature, publicKey, sendCalls, confirmCalls>>

\* variant: a failed submission disconnects the wallet
Fail_Disconnects(i, err, outcome, keptTimers) ==
  /\ error' = Some(ErrorMessage(err))
  /\ timers' = keptTimers \cup {Timer("clearError", i, BannerMs)}
  /\ isProcessing' = FALSE
  /\ flows' = [flows EXCEPT ![i].pc = "done", ![i].outcome = outcome]
  /\ publicKey' = Null
  /\ UNCHANGED <<recipient, amount, memo, success, txSignature, sendCalls,
                 confirmCalls>>

\* variant: the failed transaction is sent again
Fail_Retries(i, err, outcome, keptTimers) ==
  /\ error' = Some(ErrorMessage(err))
  /\ timers' = keptTimers \cup {Timer("clearError", i, BannerMs)}
  /\ isProcessing' = FALSE
  /\ flows' = [flows EXCEPT ![i].pc = "done", ![i].outcome = outcome]
  /\ sendCalls' = Append(sendCalls,
       sendCalls[CHOOSE k \in DOMAIN sendCalls : sendCalls[k].flow = i])
  /\ UNCHANGED <<recipient, amount, memo, success, txSignature, publicKey,
                 confirmCalls>>

Fail(i, err, outcome, keptTimers) ==
  /\ error' = Some(ErrorMessage(err))
  /\ timers' = keptTimers \cup {Timer("clearError", i, BannerMs)}
  /\ isProcessing' = FALSE
  /\ flows' = [flows EXCEPT ![i].pc = "done", ![i].outcome = outcome]
  /\ UNCHANGED <<recipient, amount, memo, success, txSignature, publicKey,
                 sendCalls, confirmCalls>>

(***************************************************************************)
(* sendTransaction settles, lines 80-95 and 112-127.                       *)
(***************************************************************************)
SendResolve(i, sig) ==
  /\ flows[i].pc = "send"
  /\ confirmCalls' = Append(confirmCalls,
       [flow |-> i, signature |-> sig, commitment |-> "confirmed"])
  /\ timers' = timers \cup {Timer("timeout", i, ConfirmTimeoutMs)}
  /\ flows' = [flows EXCEPT ![i].pc = "confirm", ![i].signature = Some(sig),
                            ![i].confirmation = "pending"]
  /\ UNCHANGED <<formState, publicKey, sendCalls>>

SendReject(i, txError) ==
  /\ flows[i].pc = "send"
  /\ Fail(i, ClassifyTxError(txError), "sendRejected", timers)

(***************************************************************************)
(* confirmTransaction settles, lines 95-110.  The value it resolves with   *)
(* is not looked at.  Once the race is decided its settling does nothing.  *)
(***************************************************************************)
\* variant: the amount field is not reset
Succeed_KeepsAmount(i) ==
  /\ txSignature' = flows[i].signature
  /\ success' = TRUE
  /\ recipient' = <<>>
  /\ memo' = <<>>
  /\ timers' = timers \cup {Timer("clearSuccess", i, BannerMs)}
  /\ isProcessing' = FALSE
  /\ flows' = [flows EXCEPT ![i].pc = "done", ![i].outcome = "success",
                            ![i].confirmation = "settled"]
  /\ UNCHANGED <<amount, error, publicKey, sendCalls, confirmCalls>>

\* lines 97-110 and 139-141: the race was won by the confirmation
Succeed(i) ==
  /\ txSignature' = flows[i].signature
  /\ success' = TRUE
  /\ recipient' = <<>>
  /\ amount' = <<>>
  /\ memo' = <<>>
  /\ timers' = timers \cup {Timer("clearSuccess", i, BannerMs)}
  /\ isProcessing' = FALSE
  /\ flows' = [flows EXCEPT ![i].pc = "done", ![i].outcome = "success",
                            ![i].confirmation = "settled"]
  /\ UNCHANGED <<error, publicKey, sendCalls, confirmCalls>>

\* variant: the success continuation runs whenever confirmTransaction resolves
ConfirmResolve_AfterRace(i, result) ==
  /\ flows[i].confirmation = "pending"
  /\ Succeed(i)

ConfirmResolve(i, result) ==
  /\ flows[i].confirmation = "pending"
  /\ IF flows[i].pc = "confirm"
     THEN Succeed(i)
     ELSE /\ flows' = [flows EXCEPT ![i].confirmation = "settled"]
          /\ UNCHANGED <<formState, publicKey, timers, sendCalls, confirmCalls>>

ConfirmReject(i, txError) ==
  /\ flows[i].confirmation = "pending"
  /\ IF flows[i].pc = "confirm"
     THEN /\ error' = Some(ErrorMessage(ClassifyTxError(txError)))
          /\ timers' = timers \cup {Timer("clearError", i, BannerMs)}
          /\ isProcessing' = FALSE
          /\ flows' = [flows EXCEPT ![i].pc = "done", ![i].outcome = "confirmRejected",
                                    ![i].confirmation = "settled"]
          /\ UNCHANGED <<recipient, amount, memo, success, txSignature, publicKey,
                         sendCalls, confirmCalls>>
     ELSE /\ flows' = [flows EXCEPT ![i].confirmation = "settled"]
          /\ UNCHANGED <<formState, publicKey, timers, sendCalls, confirmCalls>>

(***************************************************************************)
(* Timers, lines 91-93, 107-110 and 138.                                   *)
(***************************************************************************)
\* variant: the confirmation is awaited alone, the timer rejects nothing
TimeoutFire_NoRace(t) ==
  /\ t \in timers
  /\ t.kind = "timeout"
  /\ t.left <= 0
  /\ timers' = timers \ {t}
  /\ UNCHANGED <<formState, publicKey, flows, sendCalls, confirmCalls>>

\* the 30 s timer rejects timeoutPromise; the race takes it if still undecided
TimeoutFire(t) ==
  /\ t \in timers
  /\ t.kind = "timeout"
  /\ t.left <= 0
  /\ IF flows[t.flow].pc = "confirm"
     THEN Fail(t.flow, ClassifyTxError(ErrorOf(MsgConfirmTimeout)), "timeout",
               timers \ {t})
     ELSE /\ timers' = timers \ {t}
          /\ UNCHANGED <<formState, publicKey, flows, sendCalls, confirmCalls>>

ClearSuccessFire(t) ==
  /\ t \in timers
  /\ t.kind = "clearSuccess"
  /\ t.left <= 0
  /\ success' = FALSE
  /\ txSignature' = Null
  /\ timers' = timers \ {t}
  /\ UNCHANGED <<recipient, amount, memo, isProcessing, error, publicKey, flows,
                 sendCalls, confirmCalls>>

ClearErrorFire(t) ==
  /\ t \in timers
  /\ t.kind = "clearError"
  /\ t.left <= 0
  /\ error' = Null
  /\ timers' = timers \ {t}
  /\ UNCHANGED <<recipient, amount, memo, isProcessing, success, txSignature,
                 publicKey, flows, sendCalls, confirmCalls>>

\* time passes; a timer that is due runs before time passes further
Tick ==
  /\ timers # {}
  /\ \A t \in timers : t.left > 0
  /\ timers' = {[t EXCEPT !.left = @ - TickMs] : t \in timers}
  /\ UNCHANGED <<formState, publicKey, flows, sendCalls, confirmCalls>>

Next ==
  \/ \E text \in RecipientTexts : ChangeRecipient(text) /\ UNCHANGED cardVars
  \/ \E text \in AmountTexts : ChangeAmount(text) /\ UNCHANGED cardVars
  \/ \E text \in MemoTexts : ChangeMemo(text) /\ UNCHANGED cardVars
  \/ SubmitClick /\ UNCHANGED cardVars
  \/ \E i \in DOMAIN flows, sig \in Signatures : SendResolve(i, sig) /\ UNCHANGED cardVars
  \/ \E i \in DOMAIN flows, e \in SendErrors : SendReject(i, e) /\ UNCHANGED cardVars
  \/ \E i \in DOMAIN flows, r \in ConfirmResults : ConfirmResolve(i, r) /\ UNCHANGED cardVars
  \/ \E i \in DOMAIN flows, e \in ConfirmErrors : ConfirmReject(i, e) /\ UNCHANGED cardVars
  \/ \E t \in timers : TimeoutFire(t) /\ UNCHANGED cardVars
  \/ \E t \in timers : ClearSuccessFire(t) /\ UNCHANGED cardVars
  \/ \E t \in timers : ClearErrorFire(t) /\ UNCHANGED cardVars
  \/ Tick /\ UNCHANGED cardVars

Spec == Init /\ [][Next]_vars

\* The browser runs a timer that is due, and time passes; whether the wallet
\* or the network ever answer is left open.
Fairness ==
  /\ WF_vars(Tick /\ UNCHANGED cardVars)
  /\ WF_vars(\E t \in timers : TimeoutFire(t) /\ UNCHANGED cardVars)
  /\ WF_vars(\E t \in timers : ClearSuccessFire(t) /\ UNCHANGED cardVars)
  /\ WF_vars(\E t \in timers : ClearErrorFire(t) /\ UNCHANGED cardVars)

SpecLive == Init /\ [][Next]_vars /\ Fairness

(***************************************************************************)
(* The component on its own, with a stand-in wallet: the form is filled    *)
(* before the first submit event and left alone, the wallet is connected   *)
(* or not, and submit events are dispatched to the form itself, so that    *)
(* handleSubmit runs also while the wallet is not connected.  An event is  *)
(* dispatched once the form is idle again.                                 *)
(***************************************************************************)
HarnessRecipients == RecipientTexts \cup {<<>>}

\* 0.0000000001 SOL, a tenth of a lamport
SubLamportAmount == <<"0", ".">> \o [k \in 1..9 |-> "0"] \o <<"1">>

HarnessAmounts ==
  {SanitizeNumber(text) : text \in AmountTexts}
    \cup {<<"0", ".", "0", "1">>, <<"0", ".", "0", "1", "5", "7">>,
          SubLamportAmount}

InitHarness ==
  /\ recipient \in HarnessRecipients
  /\ amount \in HarnessAmounts
  /\ memo \in MemoTexts
  /\ isProcessing = FALSE
  /\ success = FALSE
  /\ error = Null
  /\ txSignature = Null
  /\ publicKey \in {Null, Some(WalletAddress)}
  /\ flows = <<>>
  /\ timers = {}
  /\ sendCalls = <<>>
  /\ confirmCalls = <<>>
  /\ walletCard = CardInit
  /\ fetches = <<>>

SubmitEvent ==
  /\ ~isProcessing
  /\ Len(flows) < MaxSubmits
  /\ handleSubmit

NextHarness ==
  \/ SubmitEvent /\ UNCHANGED cardVars
  \/ \E i \in DOMAIN flows, sig \in Signatures : SendResolve(i, sig) /\ UNCHANGED cardVars
  \/ \E i \in DOMAIN flows, e \in SendErrors : SendReject(i, e) /\ UNCHANGED cardVars
  \/ \E i \in DOMAIN flows, r \in ConfirmResults : ConfirmResolve(i, r) /\ UNCHANGED cardVars
  \/ \E i \in DOMAIN flows, e \in ConfirmErrors : ConfirmReject(i, e) /\ UNCHANGED cardVars
  \/ \E t \in timers : TimeoutFire(t) /\ UNCHANGED cardVars
  \/ \E t \in timers : ClearSuccessFire(t) /\ UNCHANGED cardVars
  \/ \E t \in timers : ClearErrorFire(t) /\ UNCHANGED cardVars
  \/ Tick /\ UNCHANGED cardVars

SpecHarness == InitHarness /\ [][NextHarness]_vars

(***************************************************************************)
(* The page: Index shows the gateway or the dashboard, the wallet connects *)
(* and disconnects.  The wallet interface publishes connected and          *)
(* publicKey together: the key is set exactly while connected.  The        *)
(* gateway's own error text is not part of the state.                      *)
(***************************************************************************)
connected == publicKey # Null

\* variant: the two screens are swapped
Screen_Swapped == IF ~connected THEN "Dashboard" ELSE "PasskeyGateway"

Screen == IF ~connected THEN "PasskeyGateway" ELSE "Dashboard"

\* the dashboard renders the payment form
FormMounted == Screen = "Dashboard"

\* what is left of an invocation whose form was unmounted: its state updates
\* reach no mounted component; a transaction still with the wallet is still
\* followed by the confirmTransaction call
Unmounted(f) ==
  IF f.pc = "done" THEN f
  ELSE [f EXCEPT !.pc = IF f.pc = "send" THEN "sendUnmounted" ELSE "done",
                 !.outcome = "unmounted"]

\* PasskeyGateway: select and connect; a failure is caught and shown there
handleConnect(ok) ==
  /\ Screen = "PasskeyGateway"
  /\ IF ok
     THEN /\ publicKey' = Some(WalletAddress)
          /\ UNCHANGED <<formState, flows, timers, sendCalls, confirmCalls>>
     ELSE UNCHANGED vars

\* Dashboard: disconnect; a failure is caught and logged.  Once disconnected
\* the dashboard is unmounted: the form's state is gone and its timers act on
\* nothing; the next dashboard starts with a fresh form.
handleDisconnect(ok) ==
  /\ Screen = "Dashboard"
  /\ IF ok
     THEN /\ publicKey' = Null
          /\ recipient' = <<>>
          /\ amount' = <<>>
          /\ memo' = <<>>
          /\ isProcessing' = FALSE
          /\ success' = FALSE
          /\ error' = Null
          /\ txSignature' = Null
          /\ timers' = {}
          /\ flows' = [i \in DOMAIN flows |-> Unmounted(flows[i])]
          /\ UNCHANGED <<sendCalls, confirmCalls>>
     ELSE UNCHANGED vars

\* sendTransaction settles for an unmounted form, lines 80-95
SendSettleUnmounted(i, sig) ==
  /\ flows[i].pc = "sendUnmounted"
  /\ IF sig # Null
     THEN /\ confirmCalls' = Append(confirmCalls,
               [flow |-> i, signature |-> sig[1], commitment |-> "confirmed"])
          /\ flows' = [flows EXCEPT ![i].pc = "done", ![i].signature = sig,
                                    ![i].confirmation = "pending"]
     ELSE /\ flows' = [flows EXCEPT ![i].pc = "done"]
          /\ UNCHANGED confirmCalls
  /\ UNCHANGED <<formState, publicKey, timers, sendCalls>>

InitPage ==
  /\ recipient = <<>>
  /\ amount = <<>>
  /\ memo = <<>>
  /\ isProcessing = FALSE
  /\ success = FALSE
  /\ error = Null
  /\ txSignature = Null
  /\ publicKey = Null
  /\ flows = <<>>
  /\ timers = {}
  /\ sendCalls = <<>>
  /\ confirmCalls = <<>>
  /\ walletCard = CardInit
  /\ fetches = <<>>

\* what is typed on the page: a valid payment and an amount that is refused
PageRecipients == {ValidRecipientA}
PageAmounts == {<<"0", ".", "5">>, <<"0">>}

NextPage ==
  \/ \E ok \in BOOLEAN : handleConnect(ok) /\ UNCHANGED cardVars
  \/ \E ok \in BOOLEAN : handleDisconnect(ok) /\ UNCHANGED cardVars
  \/ FormMounted /\ \E text \in PageRecipients : ChangeRecipient(text) /\ UNCHANGED cardVars
  \/ FormMounted /\ \E text \in PageAmounts : ChangeAmount(text) /\ UNCHANGED cardVars
  \/ FormMounted /\ \E text \in MemoTexts : ChangeMemo(text) /\ UNCHANGED cardVars
  \/ FormMounted /\ SubmitClick /\ UNCHANGED cardVars
  \/ \E i \in DOMAIN flows, sig \in Signatures : SendResolve(i, sig) /\ UNCHANGED cardVars
  \/ \E i \in DOMAIN flows, e \in SendErrors : SendReject(i, e) /\ UNCHANGED cardVars
  \/ \E i \in DOMAIN flows, sig \in {Null} \cup {Some(s) : s \in Signatures} :
       SendSettleUnmounted(i, sig) /\ UNCHANGED cardVars
  \/ \E i \in DOMAIN flows, r \in ConfirmResults : ConfirmResolve(i, r) /\ UNCHANGED cardVars
  \/ \E i \in DOMAIN flows, e \in ConfirmErrors : ConfirmReject(i, e) /\ UNCHANGED cardVars
  \/ \E t \in timers : TimeoutFire(t) /\ UNCHANGED cardVars
  \/ \E t \in timers : ClearSuccessFire(t) /\ UNCHANGED cardVars
  \/ \E t \in timers : ClearErrorFire(t) /\ UNCHANGED cardVars
  \/ Tick /\ UNCHANGED cardVars

SpecPage == InitPage /\ [][NextPage]_vars

(***************************************************************************)
(* WalletCard.tsx: the balance shown on the dashboard.  fetches is the log *)
(* of the invocations of fetchBalance that reached getBalance, each        *)
(* pending or done.  The wallet may publish another key while the          *)
(* dashboard stays mounted; the effect then runs again.                    *)
(***************************************************************************)
MsgFetchFailed == <<"Failed", "to", "fetch", "balance">>

OtherWalletAddress == Ones(31) \o <<"4">>

\* what getBalance resolves with, in lamports
Balances == {0, LAMPORTS_PER_SOL, 2 * LAMPORTS_PER_SOL}

\* lines 17-30: fetchBalance up to its await, run on the card state given
fetchBalance(card) ==
  IF publicKey = Null
  THEN /\ walletCard' = card
       /\ fetches' = fetches
  ELSE /\ walletCard' = [card EXCEPT !.isRefreshing = TRUE, !.error = Null]
       /\ fetches' = Append(fetches, [key |-> publicKey[1], state |-> "pending"])

\* lines 45-49: the effect runs after mount and whenever connected or
\* publicKey differ from what it last ran with
BalanceEffect ==
  /\ walletCard.deps # Some(<<connected, publicKey>>)
  /\ Len(fetches) < MaxFetches
  /\ LET ran == [walletCard EXCEPT !.deps = Some(<<connected, publicKey>>)]
     IN  IF connected /\ publicKey # Null
         THEN fetchBalance(ran)
         ELSE /\ walletCard' = ran
              /\ fetches' = fetches
  /\ UNCHANGED <<paymentVars, publicKey>>

\* lines 59-62
handleRefresh ==
  /\ fetchBalance(walletCard)
  /\ UNCHANGED <<paymentVars, publicKey>>

\* lines 91-94: the refresh button is disabled while isRefreshing; React runs
\* a pending effect before it handles a click
RefreshClick ==
  /\ ~walletCard.isRefreshing
  /\ walletCard.deps = Some(<<connected, publicKey>>)
  /\ Len(fetches) < MaxFetches
  /\ handleRefresh

\* lines 30-33 and 39-41: getBalance resolved
GetBalanceResolve(i, lamports) ==
  /\ fetches[i].state = "pending"
  /\ walletCard' = [walletCard EXCEPT !.balance = lamports \div LAMPORTS_PER_SOL,
                                      !.isRefreshing = FALSE]
  /\ fetches' = [fetches EXCEPT ![i].state = "done"]
  /\ UNCHANGED <<paymentVars, publicKey>>

\* lines 36-41: getBalance rejected
GetBalanceReject(i) ==
  /\ fetches[i].state = "pending"
  /\ walletCard' = [walletCard EXCEPT !.error = Some(MsgFetchFailed),
                                      !.isRefreshing = FALSE]
  /\ fetches' = [fetches EXCEPT ![i].state = "done"]
  /\ UNCHANGED <<paymentVars, publicKey>>

\* line 8: the wallet publishes another key, still connected
WalletChanges(key) ==
  /\ publicKey # Null
  /\ publicKey' = Some(key)
  /\ publicKey' # publicKey
  /\ UNCHANGED <<paymentVars, cardVars>>

InitCard ==
  /\ recipient = <<>>
  /\ amount = <<>>
  /\ memo = <<>>
  /\ isProcessing = FALSE
  /\ success = FALSE
  /\ error = Null
  /\ txSignature = Null
  /\ publicKey = Some(WalletAddress)
  /\ flows = <<>>
  /\ timers = {}
  /\ sendCalls = <<>>
  /\ confirmCalls = <<>>
  /\ walletCard = CardInit
  /\ fetches = <<>>

NextCard ==
  \/ BalanceEffect
  \/ RefreshClick
  \/ \E i \in DOMAIN fetches, lamports \in Balances : GetBalanceResolve(i, lamports)
  \/ \E i \in DOMAIN fetches : GetBalanceReject(i)
  \/ \E key \in {WalletAddress, OtherWalletAddress} : WalletChanges(key)

SpecCard == InitCard /\ [][NextCard]_vars

(***************************************************************************)
(* Properties.                                                             *)
(***************************************************************************)
NewFlow == flows'[Len(flows')]

TransferOf(call) == call.transaction.instructions[1]

\* the amount text reads as no number, or as a number that is not positive
AmountNotPositive == parseFloat(amount).nan \/ parseFloat(amount).m <= 0

\* the amount text reads as exactly one half / as more than one half
AmountAtCeiling ==
  ~parseFloat(amount).nan /\ 2 * parseFloat(amount).m = Pow10(parseFloat(amount).scale)
AmountOverCeiling ==
  ~parseFloat(amount).nan /\ 2 * parseFloat(amount).m > Pow10(parseFloat(amount).scale)

\* C1: no double submit.  At most one invocation of handleSubmit is short of
\* its terminal state, at most one sendTransaction call belongs to a pending
\* invocation, and while an invocation is pending a press of the submit
\* button starts nothing: no step adds a sendTransaction call or a flow.
C1_NoDoubleSubmit ==
  /\ [](Cardinality({i \in DOMAIN flows : Pending(i)}) <= 1)
  /\ [](Cardinality({k \in DOMAIN sendCalls : Pending(sendCalls[k].flow)}) <= 1)
  /\ [][(\E i \in DOMAIN flows : Pending(i))
          => (sendCalls' = sendCalls /\ Len(flows') = Len(flows))]_vars

\* a submission is pending, the button is disabled, and the bound on presses
\* would still allow one
C1_Witness ==
  /\ \E i \in DOMAIN flows : Pending(i)
  /\ Len(sendCalls) = 1
  /\ Len(flows) < MaxSubmits
  /\ SubmitDisabled

\* C2: a submission whose recipient does not parse as an address ends at once
\* in the error state with the invalid-recipient message, makes no call to
\* sendTransaction or confirmTransaction, and no sendTransaction call ever
\* carries a recipient that does not parse.
C2_InvalidRecipientRejected ==
  /\ [][(SubmitClick /\ ~PublicKeyParses(recipient))
          => /\ error' = Some(MsgInvalidRecipient)
             /\ NewFlow.pc = "done"
             /\ ~isProcessing'
             /\ ~success'
             /\ sendCalls' = sendCalls
             /\ confirmCalls' = confirmCalls]_vars
  /\ [](\A k \in DOMAIN sendCalls : PublicKeyParses(TransferOf(sendCalls[k]).toPubkey))

\* a submission with a malformed recipient and an acceptable amount was rejected
C2_Witness ==
  /\ flows # <<>>
  /\ flows[Len(flows)].outcome = "invalid"
  /\ ~PublicKeyParses(recipient)
  /\ amount = <<"0", ".", "5">>
  /\ error = Some(MsgInvalidRecipient)
  /\ Len(sendCalls) < Len(flows)

\* C3 as stated: every submission whose amount is non-numeric or <= 0 is
\* rejected with the invalid-amount message and makes no wallet call.
C3_Original ==
  [][(SubmitClick /\ AmountNotPositive)
       => /\ error' = Some(MsgInvalidAmount)
          /\ sendCalls' = sendCalls]_vars

\* C3 amended: a submission whose amount is non-numeric or <= 0 makes no
\* wallet call and ends at once in the error state; the message is the
\* invalid-amount message when the recipient parses, and the
\* invalid-recipient message when it does not.
C3_InvalidAmountRejected ==
  [][(SubmitClick /\ AmountNotPositive)
       => /\ sendCalls' = sendCalls
          /\ confirmCalls' = confirmCalls
          /\ NewFlow.pc = "done"
          /\ ~isProcessing'
          /\ error' = IF PublicKeyParses(recipient)
                      THEN Some(MsgInvalidAmount)
                      ELSE Some(MsgInvalidRecipient)]_vars

\* a submission with a valid recipient and amount 0 was rejected
C3_Witness ==
  /\ flows # <<>>
  /\ flows[Len(flows)].outcome = "invalid"
  /\ PublicKeyParses(recipient)
  /\ amount = <<"0">>
  /\ error = Some(MsgInvalidAmount)
  /\ Len(sendCalls) < Len(flows)

\* C4: with a recipient that parses, amount 0.5 passes validation and is
\* handed to sendTransaction as 500,000,000 lamports, while an amount above
\* 0.5 is rejected with the ceiling message and makes no wallet call.
C4_CeilingInclusive ==
  [][(SubmitClick /\ PublicKeyParses(recipient))
       => /\ AmountAtCeiling
             => /\ Len(sendCalls') = Len(sendCalls) + 1
                /\ TransferOf(sendCalls'[Len(sendCalls')]).lamports = 500000000
                /\ isProcessing'
                /\ error' = Null
          /\ AmountOverCeiling
             => /\ sendCalls' = sendCalls
                /\ error' = Some(MsgAmountTooLarge)
                /\ ~isProcessing']_vars

\* one submission of 0.5 reached the wallet and a later one of 0.51 was refused
C4_Witness ==
  /\ \E k \in DOMAIN sendCalls : TransferOf(sendCalls[k]).lamports = 500000000
  /\ amount = <<"0", ".", "5", "1">>
  /\ flows[Len(flows)].outcome = "invalid"
  /\ error = Some(MsgAmountTooLarge)

\* the signature sendTransaction resolved with for flow i, as handed on to
\* confirmTransaction
SentSignature(i) ==
  (CHOOSE k \in DOMAIN confirmCalls : confirmCalls[k].flow = i)

\* C5: success path.  When the confirmation resolves while the race is still
\* undecided, the flow ends with success = true, txSignature = the signature
\* sendTransaction resolved with, isProcessing = false, error = null, and
\* recipient, amount and memo reset to the empty string.
C5_SuccessPath ==
  [][\A i \in DOMAIN flows :
       (flows[i].pc = "confirm" /\ ConfirmResolve(i, [err |-> Null]))
         => /\ success'
            /\ txSignature' = Some(confirmCalls[SentSignature(i)].signature)
            /\ ~isProcessing'
            /\ error' = Null
            /\ recipient' = <<>>
            /\ amount' = <<>>
            /\ memo' = <<>>
            /\ flows'[i].pc = "done"]_vars

\* a flow ended in success with signature SIG123 and the form is reset
C5_Witness ==
  /\ \E i \in DOMAIN flows :
       flows[i].outcome = "success" /\ flows[i].signature = Some("SIG123")
  /\ success
  /\ txSignature = Some("SIG123")
  /\ ~isProcessing
  /\ error = Null
  /\ recipient = <<>> /\ amount = <<>> /\ memo = <<>>

\* C6: when the confirmation call resolves with a result that carries a
\* transaction error, the flow ends in the error state and not in the
\* success state.
C6_FailedConfirmationIsError ==
  [][\A i \in DOMAIN flows :
       (flows[i].pc = "confirm" /\ ConfirmResolve(i, [err |-> Some("InstructionError")]))
         => (~success' /\ Truthy(error'))]_vars

\* C7: timeout path.  When the 30-second timer fires while the confirmation
\* has not resolved, the flow shows the confirmation-timeout message, sets
\* isProcessing to false, and sets neither success nor txSignature.
C7_TimeoutPath ==
  [][\A t \in timers :
       (flows[t.flow].pc = "confirm" /\ TimeoutFire(t))
         => /\ error' = Some(MsgConfirmTimeout)
            /\ ~isProcessing'
            /\ ~success'
            /\ txSignature' = Null
            /\ flows'[t.flow].pc = "done"
            /\ ~SubmitDisabled']_vars

\* a flow timed out and the form is idle showing the timeout message
C7_Witness ==
  /\ \E i \in DOMAIN flows :
       flows[i].outcome = "timeout" /\ flows[i].confirmation = "pending"
  /\ error = Some(MsgConfirmTimeout)
  /\ ~isProcessing
  /\ ~success
  /\ txSignature = Null

\* the user interface says that the transaction failed
ClaimsFailure == ErrorBannerShown /\ ErrorBannerTitle = <<"Transaction", "Failed">>

\* the user interface says that the transaction succeeded
ClaimsSuccess == SuccessBannerShown

\* C8: in the state the confirmation timeout leaves behind, the user
\* interface claims neither that the transaction succeeded nor that it failed.
C8_TimeoutIsAmbiguous ==
  [][\A t \in timers :
       (flows[t.flow].pc = "confirm" /\ TimeoutFire(t))
         => (~ClaimsSuccess' /\ ~ClaimsFailure')]_vars

\* C9: rejection path.  When sendTransaction rejects with an error whose
\* message contains "User rejected", the message displayed is the
\* cancellation message and not the underlying one, and no confirmation call
\* is made.
C9_UserRejected ==
  [][\A i \in DOMAIN flows : \A e \in SendErrors :
       (e.isError /\ Includes(e.message[1], <<"User", "rejected">>) /\ SendReject(i, e))
         => /\ error' = Some(MsgCancelled)
            /\ error' # e.message
            /\ confirmCalls' = confirmCalls
            /\ flows'[i].pc = "done"
            /\ ~isProcessing']_vars

\* a flow ended by the user's rejection, with no confirmation call for it
C9_Witness ==
  /\ \E i \in DOMAIN flows :
       /\ flows[i].outcome = "sendRejected"
       /\ \A k \in DOMAIN confirmCalls : confirmCalls[k].flow # i
  /\ error = Some(MsgCancelled)
  /\ ~isProcessing

\* C10: when sendTransaction rejects because the transaction is too large,
\* the message displayed is not the underlying message shown verbatim (the
\* Unknown treatment) but guidance to reduce the amount or split the transfer.
C10_TransactionTooLarge ==
  [][\A i \in DOMAIN flows : \A e \in SendErrors :
       (e.isError /\ Includes(e.message[1], <<"Transaction", "too", "large">>)
          /\ SendReject(i, e))
         => error' # e.message]_vars

\* flow i reaches its terminal state in this step, on an error path
EndsInError(i) ==
  /\ i \notin DOMAIN flows \/ flows[i].pc # "done"
  /\ flows'[i].pc = "done"
  /\ flows'[i].outcome # "success"

\* C11: each invocation of handleSubmit calls sendTransaction at most once,
\* and a sendTransaction call is only ever added by a press of the submit
\* button, one call for the invocation that press starts: no failure, timer
\* or settled promise sends again.
C11_NoAutomaticRetry ==
  /\ [](\A i \in DOMAIN flows :
          Cardinality({k \in DOMAIN sendCalls : sendCalls[k].flow = i}) <= 1)
  /\ [][sendCalls' # sendCalls
          => /\ SubmitClick
             /\ sendCalls' = Append(sendCalls, sendCalls'[Len(sendCalls')])
             /\ sendCalls'[Len(sendCalls')].flow = Len(flows')]_vars

\* the only submission failed after its transaction was sent, every timer it
\* armed has run, and the wallet was called once
C11_Witness ==
  /\ Len(flows) = 1
  /\ flows[1].outcome \in {"sendRejected", "timeout", "confirmRejected"}
  /\ timers = {}
  /\ Len(sendCalls) = 1

\* C12: whenever an invocation of handleSubmit finishes on an error path, an
\* error is set, isProcessing is false and, the wallet being connected, the
\* submit button is enabled.
C12_ErrorReturnsToIdle ==
  [][\A i \in DOMAIN flows' :
       EndsInError(i)
         => /\ error' # Null
            /\ ~isProcessing'
            /\ (publicKey' # Null => ~SubmitDisabled')]_vars

\* a flow failed when its confirmation call rejected; the form is idle
C12_Witness ==
  /\ \E i \in DOMAIN flows : flows[i].outcome = "confirmRejected"
  /\ ErrorBannerShown
  /\ ~isProcessing
  /\ ~SubmitDisabled

\* C13: whenever the form holds an error message, a timer that will clear it
\* is armed, on every path that sets one, the 'Wallet not connected' return
\* included.
C13_ErrorsAutoCleared ==
  error # Null => \E t \in timers : t.kind = "clearError"

\* floor(amount * 10^9) for a decimal amount
FloorOfDecimalProduct(a) ==
  IF a.scale <= 9
  THEN a.m * (LAMPORTS_PER_SOL \div Pow10(a.scale))
  ELSE a.m \div Pow10(a.scale - 9)

\* C15: the lamports of every submitted transfer are floor(amount * 10^9),
\* and amount "0.01" yields 10,000,000.
C15_LamportsAreFloor ==
  [][(SubmitEvent /\ sendCalls' # sendCalls)
       => /\ TransferOf(sendCalls'[Len(sendCalls')]).lamports
               = FloorOfDecimalProduct(parseFloat(amount))
          /\ amount = <<"0", ".", "0", "1">>
               => TransferOf(sendCalls'[Len(sendCalls')]).lamports = 10000000]_vars

\* the invocation whose success the banner is showing: the latest successful one
BannerFlow ==
  CHOOSE i \in DOMAIN flows :
    /\ flows[i].outcome = "success"
    /\ \A j \in DOMAIN flows : flows[j].outcome = "success" => j <= i

\* C14: after a confirmed success the banner and txSignature are shown
\* together, and, no new submission intervening, they are cleared together by
\* a timer once the 8 seconds counted from that success are up, and not
\* before.
C14_SuccessClearedAfterWindow ==
  /\ [](success => txSignature # Null)
  /\ [][(success /\ ~success' /\ Len(flows') = Len(flows))
          => /\ txSignature' = Null
             /\ \E t \in timers :
                  /\ t.kind = "clearSuccess"
                  /\ t.flow = BannerFlow
                  /\ t.left <= 0]_vars

\* the call to sendTransaction made in this step
NewCall == sendCalls'[Len(sendCalls')]

\* C16: every transaction passed to sendTransaction holds exactly one
\* instruction, a transfer from the wallet address connected at the submit,
\* to the recipient typed, of the lamports computed from the amount; it is
\* the same whatever the memo field holds.
C16_SingleTransfer ==
  /\ [](\A k \in DOMAIN sendCalls :
          /\ Len(sendCalls[k].transaction.instructions) = 1
          /\ TransferOf(sendCalls[k]).program = "SystemProgram.transfer")
  /\ [][sendCalls' # sendCalls
          => NewCall.transaction.instructions =
               << [program    |-> "SystemProgram.transfer",
                   fromPubkey |-> publicKey[1],
                   toPubkey   |-> recipient,
                   lamports   |-> Lamports(parseFloat(amount))] >>]_vars

\* the last submission allowed is pending with the memo field filled (the
\* fields are not edited any more, so it was filled when submit was pressed)
C16_Witness ==
  /\ Len(flows) = MaxSubmits
  /\ flows[Len(flows)].pc = "send"
  /\ memo = <<"Testing">>
  /\ \E k \in DOMAIN sendCalls :
       /\ sendCalls[k].flow = Len(flows)
       /\ Len(sendCalls[k].transaction.instructions) = 1
       /\ TransferOf(sendCalls[k]).fromPubkey = WalletAddress
       /\ TransferOf(sendCalls[k]).toPubkey = ValidRecipientA

Unclassified(e) ==
  /\ e.isError
  /\ ~Includes(e.message[1], <<"User", "rejected">>)
  /\ ~Includes(e.message[1], <<"Signing", "failed">>)
  /\ ~Includes(e.message[1], <<"insufficient">>)
  /\ ~Includes(e.message[1], <<"blockhash">>)

C18_ScreenFollowsConnection ==
  /\ [](/\ Screen = "PasskeyGateway" <=> publicKey = Null
        /\ Screen = "Dashboard" <=> publicKey # Null)
  /\ [][/\ (/\ publicKey' = publicKey
            /\ \/ recipient' # recipient
               \/ amount' # amount
               \/ memo' # memo
               \/ Len(flows') > Len(flows))
           => publicKey # Null
        /\ handleDisconnect(TRUE) => Screen' = "PasskeyGateway"
        /\ handleConnect(TRUE) => Screen' = "Dashboard"]_vars

\* the gateway is shown again after a disconnect that interrupted a payment
C18_Witness ==
  /\ Screen = "PasskeyGateway"
  /\ \E i \in DOMAIN flows : flows[i].outcome = "unmounted"
  /\ recipient = <<>>

\* C19: the payment flow never writes the wallet connection: the key changes
\* only in a step of handleConnect or handleDisconnect, so every submission
\* outcome leaves it as it was.
C19_WalletOnlyRead ==
  [][publicKey' # publicKey
       => handleConnect(TRUE) \/ handleDisconnect(TRUE)]_vars

\* a payment succeeded and another failed, and the wallet is still connected
C19_Witness ==
  /\ publicKey = Some(WalletAddress)
  /\ \E i \in DOMAIN flows : flows[i].outcome = "success"
  /\ \E i \in DOMAIN flows : flows[i].outcome \in {"sendRejected", "timeout"}

\* C21: a submission that fails validation never shows the processing state;
\* once sendTransaction has resolved, the invocation ends (and with it the
\* processing state) at the latest when its 30 s timer fires, and it does end,
\* whether or not confirmTransaction ever settles.
C21_ProcessingEnds ==
  /\ [][/\ (SubmitClick /\ sendCalls' = sendCalls) => ~isProcessing'
        /\ \A t \in timers :
             (t.kind = "timeout" /\ TimeoutFire(t))
               => /\ flows'[t.flow].pc = "done"
                  /\ flows[t.flow].pc = "confirm" => ~isProcessing']_vars
  /\ \A i \in 1..MaxSubmits :
       (Len(flows) >= i /\ flows[i].pc = "confirm")
         ~> (Len(flows) >= i /\ flows[i].pc = "done" /\ ~isProcessing)

\* the timer ended an invocation whose confirmTransaction has not settled
C21_Witness ==
  \E i \in DOMAIN flows :
    /\ flows[i].outcome = "timeout"
    /\ flows[i].confirmation = "pending"
    /\ ~isProcessing

\* C22: the race is decided once.  When the 30 s timer has ended an
\* invocation, confirmTransaction resolving later changes nothing the form
\* shows (no success, no signature); when the confirmation has ended it, the
\* 30 s timer firing later changes nothing the form shows (no error).
C22_RaceDecidedOnce ==
  [][/\ \A i \in DOMAIN flows : \A r \in ConfirmResults :
          (flows[i].outcome = "timeout" /\ ConfirmResolve(i, r))
            => UNCHANGED formState
     /\ \A t \in timers :
          (/\ t.kind = "timeout"
           /\ flows[t.flow].outcome = "success"
           /\ TimeoutFire(t))
            => UNCHANGED formState]_vars

\* the confirmation of a timed-out invocation arrived afterwards
C22_Witness ==
  \E i \in DOMAIN flows :
    /\ flows[i].outcome = "timeout"
    /\ flows[i].confirmation = "settled"
    /\ ~success
    /\ txSignature = Null

\* the invocation whose error the banner is showing: the latest failed one
ErrorFlow ==
  CHOOSE i \in DOMAIN flows :
    /\ flows[i].pc = "done" /\ flows[i].outcome # "success"
    /\ \A j \in DOMAIN flows :
         (flows[j].pc = "done" /\ flows[j].outcome # "success") => j <= i

\* the display window of the banner set by invocation i is still running
WindowRunning(kind, i) ==
  \E own \in timers : own.kind = kind /\ own.flow = i /\ own.left > 0

\* C23: the clear timer armed by an earlier submission does not clear the
\* banner of a later one: while the 8 s window of the error (success) on
\* display is still running, a clear timer of an earlier invocation that
\* fires leaves the error (the success banner and txSignature) as it is.
C23_StaleTimerKeepsBanner ==
  [][\A t \in timers :
       /\ (/\ error # Null
           /\ t.flow < ErrorFlow
           /\ WindowRunning("clearError", ErrorFlow)
           /\ ClearErrorFire(t))
            => error' = error
       /\ (/\ success
           /\ t.flow < BannerFlow
           /\ WindowRunning("clearSuccess", BannerFlow)
           /\ ClearSuccessFire(t))
            => (success' /\ txSignature' = txSignature)]_vars

\* C24: in every state of the form the success banner and an error message
\* are not both present, the success banner is shown exactly when txSignature
\* is set, and while a submission is processing neither success nor an error
\* is set.
C24_BannersConsistent ==
  /\ ~(success /\ error # Null)
  /\ success <=> txSignature # Null
  /\ isProcessing => (~success /\ error = Null)

\* a success is on display after an earlier failure whose error was reset by
\* the second submission (its clear timer has not fired yet)
C24_Witness ==
  /\ success
  /\ txSignature # Null
  /\ error = Null
  /\ \E t \in timers : t.kind = "clearError" /\ flows[t.flow].outcome = "sendRejected"

\* the user types into a field
UserEdit ==
  \/ \E text \in RecipientTexts : ChangeRecipient(text)
  \/ \E text \in AmountTexts : ChangeAmount(text)
  \/ \E text \in MemoTexts : ChangeMemo(text)

\* C25: a step in which an invocation ends on an error path (validation,
\* rejection by the user, send or confirmation error, timeout) leaves
\* recipient, amount and memo as they are; unless the user empties it, a
\* filled field becomes empty only in the step in which an invocation ends
\* in success.
C25_FieldsKeptOnFailure ==
  [][/\ \A i \in DOMAIN flows' :
          EndsInError(i) => UNCHANGED <<recipient, amount, memo>>
     /\ (/\ ~UserEdit
         /\ \/ recipient # <<>> /\ recipient' = <<>>
            \/ amount # <<>> /\ amount' = <<>>
            \/ memo # <<>> /\ memo' = <<>>)
          => \E i \in DOMAIN flows :
               flows[i].pc = "confirm" /\ flows'[i].outcome = "success"]_vars

\* the wallet refused a payment and the form still holds what was typed
C25_Witness ==
  /\ \E i \in DOMAIN flows : flows[i].outcome = "sendRejected"
  /\ error # Null
  /\ recipient = ValidRecipientA
  /\ amount = <<"0", ".", "5">>
  /\ memo = <<"Testing">>

\* C26: a submission reports one validation error, the first in the order
\* recipient, amount numeric and positive, ceiling: a malformed recipient is
\* reported whatever the amount; with a recipient that parses, an amount that
\* is not a positive number is reported as invalid; the ceiling message is
\* reported only when the recipient parses and the amount is a positive
\* number above 0.5; one clear timer is armed for the one error.
C26_ValidationOrder ==
  [][SubmitClick
       => /\ ~PublicKeyParses(recipient) => error' = Some(MsgInvalidRecipient)
          /\ (PublicKeyParses(recipient) /\ AmountNotPositive)
               => error' = Some(MsgInvalidAmount)
          /\ error' = Some(MsgAmountTooLarge)
               <=> (/\ PublicKeyParses(recipient)
                    /\ ~AmountNotPositive
                    /\ AmountOverCeiling)
          /\ error' # Null
               => /\ NewFlow.outcome = "invalid"
                  /\ Cardinality(timers' \ timers) = 1]_vars

\* a submission with a malformed recipient and amount 0 reported the recipient
C26_Witness ==
  /\ flows # <<>>
  /\ flows[Len(flows)].outcome = "invalid"
  /\ ~PublicKeyParses(recipient)
  /\ amount = <<"0">>
  /\ error = Some(MsgInvalidRecipient)

\* C27: handleSubmit invoked while publicKey is null sets the error
\* 'Wallet not connected' and returns: it calls neither sendTransaction nor
\* confirmTransaction, the form does not enter the processing state, and
\* success, txSignature, recipient, amount and memo stay as they are.
C27_NotConnectedReturns ==
  [][(SubmitEvent /\ publicKey = Null)
       => /\ error' = Some(MsgWalletNotConnected)
          /\ NewFlow.pc = "done"
          /\ sendCalls' = sendCalls
          /\ confirmCalls' = confirmCalls
          /\ ~isProcessing'
          /\ UNCHANGED <<success, txSignature, recipient, amount, memo>>]_vars

\* a filled form was submitted without a wallet
C27_Witness ==
  /\ publicKey = Null
  /\ flows # <<>>
  /\ flows[1].outcome = "notConnected"
  /\ error = Some(MsgWalletNotConnected)
  /\ sendCalls = <<>>
  /\ recipient = ValidRecipientA
  /\ amount = <<"0", ".", "5">>

\* C28: every transaction handed to sendTransaction transfers a whole number
\* of lamports that is at least 1 and at most 500,000,000.
C28_LamportsInRange ==
  \A k \in DOMAIN sendCalls :
    /\ TransferOf(sendCalls[k]).lamports \in Nat
    /\ TransferOf(sendCalls[k]).lamports > 0
    /\ 2 * TransferOf(sendCalls[k]).lamports <= LAMPORTS_PER_SOL

\* C29: in the wallet card isRefreshing is true exactly while a balance
\* request is outstanding.
C29_RefreshingWhileFetching ==
  walletCard.isRefreshing <=> \E i \in DOMAIN fetches : fetches[i].state = "pending"

====
